---- MODULE Spec2Model ----
(***************************************************************************)
(* django_db_comments/db_comments.py: copying the verbose names and help   *)
(* texts of Django models into PostgreSQL column and table comments.       *)
(*                                                                         *)
(* Text is a sequence of one-character strings, so that lower(), title(),  *)
(* replace() and join() are computed character by character.  A Python     *)
(* dict is a sequence of <<key, value>> pairs with distinct keys, in       *)
(* insertion order.                                                        *)
(***************************************************************************)
EXTENDS Integers, Sequences, FiniteSets, TLC

VARIABLES
    PROCESSED_APPS,     \* db_comments.py:29, the module-level set
    installed,          \* the models of the app registry, apps.get_models()
    db,                 \* per alias: the comments committed in that database
    last,               \* what the last copy_help_texts_to_database call did
    outcome,            \* per app_config: how its first call ended
    model,              \* the argument of get_comments_for_model
    column_comments,    \* the value get_comments_for_model returned
    writer_in,          \* the mapping handed to a writer called on its own
    writer_out          \* what that writer call did

vars == <<PROCESSED_APPS, installed, db, last, outcome, model, column_comments,
          writer_in, writer_out>>

----------------------------------------------------------------------------
(* Bounds *)

MaxNameLen == 2         \* longest field name / verbose name drawn
MaxFields == 2          \* most fields of a drawn model
MaxTables == 2          \* most tables of a drawn writer mapping
MaxColumns == 2         \* most columns per table of a drawn writer mapping

----------------------------------------------------------------------------
(* Text *)

NameChars == {"a", "A", "_"}
TextChars == {"a", "A", "_", " "}

\* str.lower() on one character
LowerChar(c) == IF c = "A" THEN "a" ELSE IF c = "B" THEN "b" ELSE c

\* str.upper() on one character
UpperChar(c) == IF c = "a" THEN "A" ELSE IF c = "b" THEN "B" ELSE c

IsLetter(c) == c \in {"a", "A", "b", "B"}

\* str.lower()
lower(s) == [i \in 1..Len(s) |-> LowerChar(s[i])]

\* str.replace("_", " ")
replace_underscores(s) == [i \in 1..Len(s) |-> IF s[i] = "_" THEN " " ELSE s[i]]

\* str.title(): a letter that follows a non-letter (or starts the text) is
\* upper-cased, every other letter is lower-cased
title(s) ==
    [i \in 1..Len(s) |->
        IF ~IsLetter(s[i]) THEN s[i]
        ELSE IF i = 1 \/ ~IsLetter(s[i - 1]) THEN UpperChar(s[i])
        ELSE LowerChar(s[i])]

SEPARATOR == <<" ", "|", " ">>

\* " | ".join(parts)
RECURSIVE join(_)
join(parts) ==
    IF parts = <<>> THEN <<>>
    ELSE IF Len(parts) = 1 THEN parts[1]
    ELSE parts[1] \o SEPARATOR \o join(Tail(parts))

\* Texts of length lo..hi over the characters cs
TextsOver(cs, lo, hi) == UNION {[1..n -> cs] : n \in lo..hi}

----------------------------------------------------------------------------
(* Python dicts as sequences of <<key, value>> pairs *)

Keys(d) == {d[i][1] : i \in 1..Len(d)}

HasKey(d, k) == \E i \in 1..Len(d) : d[i][1] = k

Get(d, k) == d[CHOOSE i \in 1..Len(d) : d[i][1] = k][2]

\* d[k] = v: an existing key keeps its position, a new key goes last
Put(d, k, v) ==
    IF HasKey(d, k)
    THEN [i \in 1..Len(d) |-> IF d[i][1] = k THEN <<k, v>> ELSE d[i]]
    ELSE Append(d, <<k, v>>)

----------------------------------------------------------------------------
(* get_comments_for_model, db_comments.py:32-52 *)

\* line 41: the verbose name is not the one Django derives from the name
VerboseNameIsCustom(field) ==
    lower(field.verbose_name) # replace_underscores(lower(field.name))

\* lines 38-48: the parts of one field's comment
CommentParts(field) ==
    (IF VerboseNameIsCustom(field) THEN <<field.verbose_name>> ELSE <<>>)
        \o (IF field.help_text # <<>> THEN <<field.help_text>> ELSE <<>>)

\* line 37 left out: inherited fields taken as the model's own
IsLocalAlways(field, m) == TRUE

\* line 37
IsLocal(field, m) == field.model = m.id

\* lines 33-52: the loop over model._meta.fields, from the first field on
RECURSIVE CommentsOfFields(_, _, _)
CommentsOfFields(fields, m, acc) ==
    IF fields = <<>> THEN acc
    ELSE LET field == Head(fields)
             comment == CommentParts(field)
         IN  CommentsOfFields(
                 Tail(fields), m,
                 IF IsLocal(field, m) /\ comment # <<>>
                 THEN Put(acc, field.column, join(comment))
                 ELSE acc)

get_comments_for_model(m) == CommentsOfFields(m.fields, m, <<>>)

----------------------------------------------------------------------------
(* Host configuration read by the code *)

DEFAULT_DB_ALIAS == "default"

ALLOWED_ENGINES ==
    { "django.db.backends.postgresql",
      "django.contrib.gis.db.backends.postgis",
      "django.db.backends.postgresql_psycopg2",
      "psqlextra.backend" }

\* settings.DATABASES[alias]["ENGINE"]
DATABASES ==
    [ default |-> "django.db.backends.postgresql",
      gis     |-> "django.contrib.gis.db.backends.postgis",
      legacy  |-> "django.db.backends.postgresql_psycopg2",
      extra   |-> "psqlextra.backend",
      lite    |-> "django.db.backends.sqlite3" ]

Aliases == DOMAIN DATABASES

\* app_config.label and app_config.models_module of the installed apps
AppConfigs == {"tests", "blog", "django_db_comments"}

models_module(app_config) == app_config \in {"tests", "blog"}

\* router.allow_migrate(using, app_label): one router keeps blog off "extra"
allow_migrate(using, app_label) == ~(using = "extra" /\ app_label = "blog")

----------------------------------------------------------------------------
(* The writers, db_comments.py:55-74 *)

POSTGRES_COMMENT_SQL == "COMMENT ON COLUMN {}.{} IS %s"

POSTGRES_COMMENT_ON_TABLE_SQL == "COMMENT ON TABLE {} IS %s"

\* lines 61-63 with the two identifiers in the other order
ColumnStatementSwapped(table, column, comment) ==
    [sql |-> POSTGRES_COMMENT_SQL, identifiers |-> <<column, table>>,
     params |-> <<comment>>]

\* lines 61-64: POSTGRES_COMMENT_SQL.format(Identifier, Identifier), [comment]
ColumnStatement(table, column, comment) ==
    [sql |-> POSTGRES_COMMENT_SQL, identifiers |-> <<table, column>>,
     params |-> <<comment>>]

\* lines 71-74
TableStatement(table, comment) ==
    [sql |-> POSTGRES_COMMENT_ON_TABLE_SQL, identifiers |-> <<table>>,
     params |-> <<comment>>]

\* lines 60-64: the inner loop over columns.items()
RECURSIVE StatementsOfColumns(_, _)
StatementsOfColumns(table, columns) ==
    IF columns = <<>> THEN <<>>
    ELSE <<ColumnStatement(table, columns[1][1], columns[1][2])>>
            \o StatementsOfColumns(table, Tail(columns))

\* lines 58-64: the outer loop over columns_comments.items()
RECURSIVE ColumnStatements(_)
ColumnStatements(columns_comments) ==
    IF columns_comments = <<>> THEN <<>>
    ELSE StatementsOfColumns(columns_comments[1][1], columns_comments[1][2])
            \o ColumnStatements(Tail(columns_comments))

\* lines 70-74: the loop over table_comment_dict.items()
RECURSIVE TableStatements(_)
TableStatements(table_comment_dict) ==
    IF table_comment_dict = <<>> THEN <<>>
    ELSE <<TableStatement(table_comment_dict[1][1], table_comment_dict[1][2])>>
            \o TableStatements(Tail(table_comment_dict))

\* lines 57 and 69: transaction.atomic() is given no alias, and Django then
\* opens the block on the default connection
AtomicAlias(using) == DEFAULT_DB_ALIAS

\* lines 56-64 and 68-74: a cursor on connections[using], an atomic block,
\* one cursor.execute per statement.  Statement number failAt raises (0: none
\* does); the exception leaves both with-blocks.  The connections are in
\* Django's autocommit mode outside an atomic block, so a statement on a
\* connection that the atomic block did not take out of autocommit is
\* committed as it executes.
RunWriter(kind, statements, using, failAt) ==
    LET raised == failAt \in 1..Len(statements)
        attempted == IF raised THEN SubSeq(statements, 1, failAt) ELSE statements
        executed == IF raised THEN SubSeq(statements, 1, failAt - 1) ELSE statements
        in_block == AtomicAlias(using) = using
        committed == IF in_block /\ raised THEN <<>> ELSE executed
    IN  [ kind |-> kind,
          using |-> using,
          atomic_on |-> AtomicAlias(using),
          attempted |-> attempted,
          raised |-> raised,
          committed |-> committed,
          events |->
              <<[op |-> "cursor", kind |-> kind, on |-> using],
                [op |-> "begin", kind |-> kind, on |-> AtomicAlias(using)]>>
              \o [i \in 1..Len(attempted) |->
                    [op |-> "execute", kind |-> kind, on |-> using]]
              \o <<[op |-> IF raised THEN "rollback" ELSE "commit",
                    kind |-> kind, on |-> AtomicAlias(using)]>> ]

add_column_comments_to_database(columns_comments, using, failAt) ==
    RunWriter("column", ColumnStatements(columns_comments), using, failAt)

add_table_comments_to_database(table_comment_dict, using, failAt) ==
    RunWriter("table", TableStatements(table_comment_dict), using, failAt)

\* PostgreSQL: COMMENT ON ... IS '' drops the comment, any other text
\* replaces the one the object had
RECURSIVE Commit(_, _)
Commit(comments, statements) ==
    IF statements = <<>> THEN comments
    ELSE LET st == Head(statements)
             others == {c \in comments : c[1] # st.identifiers}
         IN  Commit(IF st.params[1] = <<>> THEN others
                    ELSE others \cup {<<st.identifiers, st.params[1]>>},
                    Tail(statements))

----------------------------------------------------------------------------
(* The app registry *)

Field(name, column, verbose_name, help_text, declared_on) ==
    [name |-> name, column |-> column, verbose_name |-> verbose_name,
     help_text |-> help_text, model |-> declared_on]

\* The model classes a project may install, in the order apps.get_models()
\* lists them.  3 is a proxy of 1 (same table, same fields), 5 is unmanaged.
ModelClasses ==
    << [id |-> 1, app |-> "tests", db_table |-> "tests_examplemodel",
        verbose_name |-> <<"a", " ", "b">>,
        abstract |-> FALSE, proxy |-> FALSE, managed |-> TRUE,
        fields |-> << Field(<<"a">>, <<"a">>, <<"a">>, <<>>, 1),
                      Field(<<"a", "_", "b">>, <<"a", "_", "b">>,
                            <<"a", " ", "b">>, <<"b">>, 1) >>],
       [id |-> 2, app |-> "tests", db_table |-> "tests_plain",
        verbose_name |-> <<>>,
        abstract |-> FALSE, proxy |-> FALSE, managed |-> TRUE,
        fields |-> << Field(<<"a">>, <<"a">>, <<"a">>, <<>>, 2) >>],
       [id |-> 3, app |-> "tests", db_table |-> "tests_examplemodel",
        verbose_name |-> <<"b">>,
        abstract |-> FALSE, proxy |-> TRUE, managed |-> TRUE,
        fields |-> << Field(<<"a">>, <<"a">>, <<"a">>, <<>>, 1),
                      Field(<<"a", "_", "b">>, <<"a", "_", "b">>,
                            <<"a", " ", "b">>, <<"b">>, 1) >>],
       [id |-> 4, app |-> "blog", db_table |-> "blog_post",
        verbose_name |-> <<"b", "a">>,
        abstract |-> FALSE, proxy |-> FALSE, managed |-> TRUE,
        fields |-> << Field(<<"b">>, <<"b", "_", "a">>, <<"A">>, <<"b">>, 4) >>],
       [id |-> 5, app |-> "blog", db_table |-> "legacy_table",
        verbose_name |-> <<"a">>,
        abstract |-> FALSE, proxy |-> FALSE, managed |-> FALSE,
        fields |-> << Field(<<"b">>, <<"b">>, <<"b">>, <<"a">>, 5) >>] >>

ModelIds == 1..Len(ModelClasses)

\* The projects: which model classes are installed (a proxy is installed with
\* the model it is a proxy of)
Registries == {{}, {2}, {1, 3}, {1, 2, 4}, {1, 2, 3, 4, 5}}

\* apps.get_models(), line 109: the models of every installed app
get_models(registry) == SelectSeq(ModelClasses, LAMBDA m : m.id \in registry)

----------------------------------------------------------------------------
(* _check_app_config, db_comments.py:77-87 *)

\* lines 82-83 left out
check_app_config_any_engine(app_config, using) ==
    /\ models_module(app_config)
    /\ allow_migrate(using, app_config)

\* lines 78-87; app_config.label stands for the app_config
check_app_config(app_config, using) ==
    /\ models_module(app_config)
    /\ DATABASES[using] \in ALLOWED_ENGINES
    /\ allow_migrate(using, app_config)

----------------------------------------------------------------------------
(* copy_help_texts_to_database, db_comments.py:90-141 *)

\* lines 107-117
IsConcrete(m) == ~(m.abstract \/ m.proxy \/ ~m.managed)

AppModels(app_config, registry) == SelectSeq(get_models(registry), IsConcrete)

\* lines 119-121: {model._meta.db_table: get_comments_for_model(model) ...}
RECURSIVE ColumnsComments(_, _)
ColumnsComments(app_models, acc) ==
    IF app_models = <<>> THEN acc
    ELSE ColumnsComments(
            Tail(app_models),
            Put(acc, app_models[1].db_table, get_comments_for_model(app_models[1])))

\* lines 126-130: {db_table: verbose_name.title() ... if verbose_name}
RECURSIVE TableComments(_, _)
TableComments(app_models, acc) ==
    IF app_models = <<>> THEN acc
    ELSE TableComments(
            Tail(app_models),
            IF app_models[1].verbose_name # <<>>
            THEN Put(acc, app_models[1].db_table, title(app_models[1].verbose_name))
            ELSE acc)

\* lines 136-141: the lines print() writes
RECURSIVE ColumnLines(_)
ColumnLines(statements) ==
    IF statements = <<>> THEN <<>>
    ELSE <<[line |-> "Adding comment in %s for %s = '%s'",
            args |-> Head(statements).identifiers \o Head(statements).params]>>
            \o ColumnLines(Tail(statements))

RECURSIVE TableLines(_)
TableLines(statements) ==
    IF statements = <<>> THEN <<>>
    ELSE <<[line |-> "Adding comment to %s = '%s'",
            args |-> Head(statements).identifiers \o Head(statements).params]>>
            \o TableLines(Tail(statements))

\* lines 101-102 left out
AlreadyProcessedNever(app_config, processed) == FALSE

\* line 101
AlreadyProcessed(app_config, processed) == app_config \in processed

\* line 103 moved after the check of lines 104-105
MarkIfEligible(app_config, using, processed) ==
    IF check_app_config(app_config, using) THEN processed \cup {app_config}
    ELSE processed

\* line 103 marking every installed app, as line 109 reads the models of all
MarkAllApps(app_config, using, processed) == AppConfigs

\* line 103, where it stands: before the check of line 104
Mark(app_config, using, processed) == processed \cup {app_config}

\* the writer calls wrapped in try/except: the function goes on after a raise
ContinuesAfterError(run) == TRUE

\* lines 124 and 133 stand in no try block: an exception of a writer leaves
\* the function
Continues(run) == ~run.raised

NoRun == [kind |-> "none", using |-> "none", atomic_on |-> "none",
          attempted |-> <<>>, raised |-> FALSE, committed |-> <<>>,
          events |-> <<>>]

NoCall ==
    [ app_config |-> "none", using |-> "none", verbosity |-> 0,
      exit |-> "none", raised |-> FALSE,
      columns_comments |-> <<>>, table_comments |-> <<>>,
      column_run |-> NoRun, table_run |-> NoRun, printed |-> <<>> ]

\* The body of the function after line 105: what one eligible pass does.
\* failCol and failTab name the statement of each writer that raises.
Pass(app_config, verbosity, using, registry, failCol, failTab) ==
    LET app_models == AppModels(app_config, registry)
        columns_comments == ColumnsComments(app_models, <<>>)
        column_run ==
            IF columns_comments # <<>>
            THEN add_column_comments_to_database(columns_comments, using, failCol)
            ELSE NoRun
        table_comments ==
            IF Continues(column_run) THEN TableComments(app_models, <<>>)
            ELSE <<>>
        table_run ==
            IF Continues(column_run) /\ table_comments # <<>>
            THEN add_table_comments_to_database(table_comments, using, failTab)
            ELSE NoRun
        raised == column_run.raised \/ table_run.raised
        printed ==
            IF Continues(column_run) /\ Continues(table_run) /\ verbosity >= 2
            THEN ColumnLines(ColumnStatements(columns_comments))
                    \o TableLines(TableStatements(table_comments))
            ELSE <<>>
    IN  [ app_config |-> app_config, using |-> using, verbosity |-> verbosity,
          exit |-> IF raised THEN "raised" ELSE "completed", raised |-> raised,
          columns_comments |-> columns_comments,
          table_comments |-> table_comments,
          column_run |-> column_run, table_run |-> table_run,
          printed |-> printed ]

----------------------------------------------------------------------------
(* Inputs *)

Verbosities == {1, 2}

\* Sequences of distinct elements of S, of length lo..hi
DistinctSeqs(S, lo, hi) ==
    {q \in UNION {[1..n -> S] : n \in lo..hi} :
        \A i, j \in 1..Len(q) : q[i] = q[j] => i = j}

\* The model get_comments_for_model is given has id 1; 2 is a base model it
\* inherits fields from.  Its first field is drawn in full, the others come
\* from OtherFields.  The columns of a model are distinct.
OtherFields ==
    { Field(<<"b", "a">>, <<"c">>, <<"b">>, <<"h">>, 1),
      Field(<<"b", "b">>, <<"d">>, <<"b">>, <<"h">>, 2) }

DrawnFirstFields ==
    { Field(name, column, verbose_name, help_text, declared_on) :
        name \in TextsOver(NameChars, 1, MaxNameLen),
        column \in {<<"k">>, <<"k", "_", "i", "d">>},
        verbose_name \in TextsOver(TextChars, 0, MaxNameLen),
        help_text \in {<<>>, <<"h">>},
        declared_on \in {1, 2} }

\* field.column is the field's name, or the name with "_id" (a foreign key)
WithColumn(field) ==
    [field EXCEPT !.column = IF @ = <<"k">> THEN field.name
                             ELSE field.name \o <<"_", "i", "d">>]

DrawnModels ==
    { [id |-> 1, fields |-> <<WithColumn(first)>> \o rest] :
        first \in DrawnFirstFields,
        rest \in DistinctSeqs(OtherFields, 0, MaxFields - 1) }

TableNames == {"t1", "t2", "t3"}

ColumnNames == {<<"a">>, <<"b">>, <<"c">>}

DrawnColumnDicts ==
    { [i \in 1..Len(q) |-> <<q[i], <<"x">> \o q[i]>>] :
        q \in DistinctSeqs(ColumnNames, 0, MaxColumns) }

DrawnColumnsComments ==
    UNION { { [i \in 1..Len(q) |-> <<q[i], cols[i]>>] :
                cols \in [1..Len(q) -> DrawnColumnDicts] } :
            q \in DistinctSeqs(TableNames, 0, MaxTables) }

DrawnTableComments ==
    UNION { { [i \in 1..Len(q) |-> <<q[i], texts[i]>>] :
                texts \in [1..Len(q) -> {<<"x">>, <<"y">>}] } :
            q \in DistinctSeqs(TableNames, 0, MaxTables) }

WriterAliases == {DEFAULT_DB_ALIAS, "extra"}

----------------------------------------------------------------------------
(* The signal handler called by post_migrate, time after time *)

InitCommon ==
    /\ PROCESSED_APPS = {}
    /\ db = [alias \in Aliases |-> {}]
    /\ last = NoCall
    /\ outcome = [app_config \in AppConfigs |-> "none"]

Init ==
    /\ InitCommon
    /\ installed \in Registries
    /\ model = [id |-> 1, fields |-> <<>>]
    /\ column_comments = [returned |-> FALSE, value |-> <<>>]
    /\ writer_in = [kind |-> "none", mapping |-> <<>>]
    /\ writer_out = NoRun

\* lines 101-102
CallAlreadyProcessed(app_config, verbosity, using) ==
    /\ AlreadyProcessed(app_config, PROCESSED_APPS)
    /\ last' = [NoCall EXCEPT !.app_config = app_config, !.using = using,
                              !.verbosity = verbosity,
                              !.exit = "already_processed"]
    /\ UNCHANGED <<PROCESSED_APPS, installed, db, outcome, model,
                   column_comments, writer_in, writer_out>>

\* lines 103-105
CallIneligible(app_config, verbosity, using) ==
    /\ ~AlreadyProcessed(app_config, PROCESSED_APPS)
    /\ ~check_app_config(app_config, using)
    /\ PROCESSED_APPS' = Mark(app_config, using, PROCESSED_APPS)
    /\ last' = [NoCall EXCEPT !.app_config = app_config, !.using = using,
                              !.verbosity = verbosity, !.exit = "ineligible"]
    /\ outcome' = [outcome EXCEPT ![app_config] = "ineligible"]
    /\ UNCHANGED <<installed, db, model, column_comments, writer_in, writer_out>>

\* lines 103-141
CallPass(app_config, verbosity, using) ==
    /\ ~AlreadyProcessed(app_config, PROCESSED_APPS)
    /\ check_app_config(app_config, using)
    /\ PROCESSED_APPS' = Mark(app_config, using, PROCESSED_APPS)
    /\ LET app_models == AppModels(app_config, installed)
           nCol == Len(ColumnStatements(ColumnsComments(app_models, <<>>)))
           nTab == Len(TableStatements(TableComments(app_models, <<>>)))
       IN  \E failCol \in 0..nCol :
           \E failTab \in IF failCol = 0 THEN 0..nTab ELSE {0} :
             LET run == Pass(app_config, verbosity, using, installed,
                             failCol, failTab)
             IN  /\ last' = run
                 /\ db' = [db EXCEPT ![using] =
                             Commit(Commit(@, run.column_run.committed),
                                    run.table_run.committed)]
                 /\ outcome' = [outcome EXCEPT ![app_config] = run.exit]
    /\ UNCHANGED <<installed, model, column_comments, writer_in, writer_out>>

copy_help_texts_to_database ==
    \E app_config \in AppConfigs, verbosity \in Verbosities, using \in Aliases :
        \/ CallAlreadyProcessed(app_config, verbosity, using)
        \/ CallIneligible(app_config, verbosity, using)
        \/ CallPass(app_config, verbosity, using)

Next == copy_help_texts_to_database

Spec == Init /\ [][Next]_vars

----------------------------------------------------------------------------
(* get_comments_for_model called on a drawn model *)

InitExtract ==
    /\ InitCommon
    /\ installed = {}
    /\ model \in DrawnModels
    /\ column_comments = [returned |-> FALSE, value |-> <<>>]
    /\ writer_in = [kind |-> "none", mapping |-> <<>>]
    /\ writer_out = NoRun

CallGetCommentsForModel ==
    /\ ~column_comments.returned
    /\ column_comments' = [returned |-> TRUE, value |-> get_comments_for_model(model)]
    /\ UNCHANGED <<PROCESSED_APPS, installed, db, last, outcome, model,
                   writer_in, writer_out>>

NextExtract == CallGetCommentsForModel

SpecExtract == InitExtract /\ [][NextExtract]_vars

----------------------------------------------------------------------------
(* The writers called on a drawn mapping *)

InitWriter ==
    /\ InitCommon
    /\ installed = {}
    /\ model = [id |-> 1, fields |-> <<>>]
    /\ column_comments = [returned |-> FALSE, value |-> <<>>]
    /\ writer_in \in
        {[kind |-> "column", mapping |-> m] : m \in DrawnColumnsComments}
        \cup {[kind |-> "table", mapping |-> m] : m \in DrawnTableComments}
    /\ writer_out = NoRun

CallWriter(run, using) ==
    /\ writer_out' = run
    /\ db' = [db EXCEPT ![using] = Commit(@, run.committed)]
    /\ UNCHANGED <<PROCESSED_APPS, installed, last, outcome, model,
                   column_comments, writer_in>>

CallAddColumnComments ==
    /\ writer_in.kind = "column"
    /\ writer_out = NoRun
    /\ \E using \in WriterAliases,
          failAt \in 0..Len(ColumnStatements(writer_in.mapping)) :
            CallWriter(add_column_comments_to_database(writer_in.mapping, using, failAt),
                       using)

CallAddTableComments ==
    /\ writer_in.kind = "table"
    /\ writer_out = NoRun
    /\ \E using \in WriterAliases,
          failAt \in 0..Len(TableStatements(writer_in.mapping)) :
            CallWriter(add_table_comments_to_database(writer_in.mapping, using, failAt),
                       using)

NextWriter == CallAddColumnComments \/ CallAddTableComments

SpecWriter == InitWriter /\ [][NextWriter]_vars

----------------------------------------------------------------------------
(* Properties of copy_help_texts_to_database (Spec) *)

WriterCalled(call) == call.column_run.kind # "none" \/ call.table_run.kind # "none"

\* C1: once copy_help_texts_to_database has been called for an app_config,
\* a later call for it, on any alias and with any verbosity, calls neither
\* writer and leaves every database as it was.
C1_NoWritesOnceInvoked ==
    [][outcome[last'.app_config] # "none"
        => /\ ~WriterCalled(last')
           /\ last'.printed = <<>>
           /\ db' = db]_vars

C1_Witness ==
    /\ last.exit = "already_processed"
    /\ outcome[last.app_config] = "completed"
    /\ last.using = "gis"
    /\ last.verbosity = 1
    /\ db["default"] # {}

\* C2: a writer is called only when the app has a models module, the engine
\* of the alias is one of ALLOWED_ENGINES and the router allows the migration;
\* a database whose engine is not allowed never gets a comment.
C2_WritesOnlyWhenEligible ==
    /\ WriterCalled(last) =>
        /\ last.app_config \in {"tests", "blog"}
        /\ DATABASES[last.using] \in
            { "django.db.backends.postgresql",
              "django.contrib.gis.db.backends.postgis",
              "django.db.backends.postgresql_psycopg2",
              "psqlextra.backend" }
        /\ ~(last.using = "extra" /\ last.app_config = "blog")
    /\ db["lite"] = {}

C2_Witness ==
    /\ last.column_run.kind = "column"
    /\ last.table_run.kind = "table"
    /\ last.using = "legacy"
    /\ outcome["django_db_comments"] = "ineligible"
    /\ outcome["blog"] = "ineligible"

\* The tables of the installed models of one app that are neither
\* abstract, nor proxies, nor unmanaged
OwnTables(app_config) ==
    { ModelClasses[i].db_table : i \in
        { j \in installed : /\ ModelClasses[j].app = app_config
                            /\ ~ModelClasses[j].abstract
                            /\ ~ModelClasses[j].proxy
                            /\ ModelClasses[j].managed } }

\* The statements the writers of one call sent to the database
Sent(call) ==
    {call.column_run.attempted[i] : i \in 1..Len(call.column_run.attempted)}
        \cup {call.table_run.attempted[i] : i \in 1..Len(call.table_run.attempted)}

\* C6: every table a pass writes a column or table comment for is the table
\* of a concrete model of the app_config the call is for.
C6_OnlyOwnTables ==
    \A st \in Sent(last) : st.identifiers[1] \in OwnTables(last.app_config)

\* C7: the app_config a call is for is in PROCESSED_APPS when the call returns
\* or raises, nothing is ever removed from PROCESSED_APPS, and an app_config
\* whose first call found it ineligible or raised is not looked at again.
C7_MarkedBeforeCheckAndKept ==
    [][/\ last'.app_config \in PROCESSED_APPS'
       /\ PROCESSED_APPS \subseteq PROCESSED_APPS'
       /\ outcome[last'.app_config] \in {"ineligible", "raised"}
            => last'.exit = "already_processed"]_vars

C7_Witness ==
    /\ outcome["blog"] = "ineligible"
    /\ outcome["tests"] = "raised"
    /\ {"blog", "tests"} \subseteq PROCESSED_APPS
    /\ last.app_config = "tests"
    /\ last.exit = "already_processed"

\* C8 as stated: between calls, every member of PROCESSED_APPS is an
\* app_config whose pass completed.
C8_OnlyAfterSuccess ==
    \A app_config \in PROCESSED_APPS : outcome[app_config] = "completed"

\* C8 amended: every member of PROCESSED_APPS is an app_config that
\* copy_help_texts_to_database has been called for, however that call ended.
C8_OnlyAfterInvocation ==
    \A app_config \in PROCESSED_APPS : outcome[app_config] # "none"

C8_Witness ==
    /\ "tests" \in PROCESSED_APPS
    /\ outcome["tests"] = "ineligible"
    /\ "blog" \notin PROCESSED_APPS

\* C9: when no field of any model of the pass yields a comment, the column
\* writer is not called: no cursor, no transaction.
C9_NoColumnWriterWithoutComments ==
    ColumnStatements(last.columns_comments) = <<>>
        => /\ last.column_run.kind = "none"
           /\ last.column_run.events = <<>>

\* C10: in one pass the table writer starts only after the column writer
\* has committed, each writer has its own atomic block; when the column
\* writer raises, the table writer is not called and nothing is printed;
\* when the table writer raises, the call raises, and the column comments of
\* the pass stay committed.
C10_ColumnsThenTables ==
    LET col == last.column_run
        tab == last.table_run
    IN  /\ tab.kind = "table" /\ col.kind = "column"
            => /\ ~col.raised
               /\ col.events[Len(col.events)].op = "commit"
               /\ col.events[2].op = "begin"
               /\ tab.events[2].op = "begin"
        /\ col.raised
            => /\ tab.kind = "none" /\ tab.events = <<>>
               /\ last.printed = <<>>
               /\ last.raised
        /\ tab.raised
            => /\ last.raised
               /\ last.printed = <<>>
               /\ col.committed = ColumnStatements(last.columns_comments)
               /\ \A i \in 1..Len(col.committed) :
                    <<col.committed[i].identifiers, col.committed[i].params[1]>>
                        \in db[last.using]

C10_Witness ==
    /\ last.table_run.raised
    /\ Len(last.table_run.attempted) = 2
    /\ Len(last.column_run.committed) = 2
    /\ last.verbosity = 2

----------------------------------------------------------------------------
(* Properties of get_comments_for_model (SpecExtract) *)

\* The comment the claim gives a field whose verbose name differs/help text is set
ExpectedComment(differs, field) ==
    IF differs /\ field.help_text # <<>>
    THEN field.verbose_name \o <<" ", "|", " ">> \o field.help_text
    ELSE IF differs THEN field.verbose_name
    ELSE field.help_text

FieldsOf(m) == {m.fields[i] : i \in 1..Len(m.fields)}

\* C3 as stated: the verbose name is compared with the column name.
C3_EntryIffLocalAndDocumented_ByColumn ==
    column_comments.returned =>
        \A field \in FieldsOf(model) :
            LET differs == lower(field.verbose_name)
                             # replace_underscores(lower(field.column))
                local == field.model = model.id
            IN  /\ HasKey(column_comments.value, field.column)
                    <=> (local /\ (differs \/ field.help_text # <<>>))
                /\ HasKey(column_comments.value, field.column)
                    => Get(column_comments.value, field.column)
                        = ExpectedComment(differs, field)

\* C3 amended: get_comments_for_model(model) has an entry for a field's column
\* if and only if the field is declared on the model and either its verbose
\* name differs, case-insensitively, from its name (not its column) with
\* underscores replaced by spaces, or its help text is non-empty; the value
\* is the verbose name (only when it differs) and the help text (only when
\* non-empty) joined by " | "; there are no other entries.
C3_EntryIffLocalAndDocumented ==
    column_comments.returned =>
        /\ \A field \in FieldsOf(model) :
            LET differs == lower(field.verbose_name)
                             # replace_underscores(lower(field.name))
                local == field.model = model.id
            IN  /\ HasKey(column_comments.value, field.column)
                    <=> (local /\ (differs \/ field.help_text # <<>>))
                /\ HasKey(column_comments.value, field.column)
                    => Get(column_comments.value, field.column)
                        = ExpectedComment(differs, field)
        /\ Keys(column_comments.value)
            \subseteq {field.column : field \in FieldsOf(model)}

C3_Witness ==
    /\ column_comments.returned
    /\ Len(model.fields) = 2
    /\ model.fields[1].name = <<"A", "_">>
    /\ model.fields[1].column = <<"A", "_", "_", "i", "d">>
    /\ model.fields[1].verbose_name = <<"a", " ">>
    /\ model.fields[1].help_text = <<"h">>
    /\ model.fields[2].model = 2
    /\ column_comments.value = << <<model.fields[1].column, <<"h">>>> >>

----------------------------------------------------------------------------
(* Properties of the writers (SpecWriter) *)

RECURSIVE ColumnsBefore(_, _)
ColumnsBefore(mapping, i) ==
    IF i <= 1 THEN 0
    ELSE Len(mapping[i - 1][2]) + ColumnsBefore(mapping, i - 1)

\* C4: without a failure the column writer executes one COMMENT ON COLUMN
\* per (table, column) of the mapping, the table writer one COMMENT ON TABLE
\* per table, in the order of the mapping, the identifiers being the table
\* (and column) and the only parameter the comment; with a failure, the
\* statements up to the failing one.
C4_OneStatementPerEntryInOrder ==
    LET d == writer_in.mapping
        st == writer_out.attempted
    IN  /\ writer_out.kind = "column" =>
            /\ ~writer_out.raised => Len(st) = ColumnsBefore(d, Len(d) + 1)
            /\ Len(st) <= ColumnsBefore(d, Len(d) + 1)
            /\ \A i \in 1..Len(d) : \A j \in 1..Len(d[i][2]) :
                ColumnsBefore(d, i) + j <= Len(st) =>
                    st[ColumnsBefore(d, i) + j] =
                        [sql |-> "COMMENT ON COLUMN {}.{} IS %s",
                         identifiers |-> <<d[i][1], d[i][2][j][1]>>,
                         params |-> <<d[i][2][j][2]>>]
        /\ writer_out.kind = "table" =>
            /\ ~writer_out.raised => Len(st) = Len(d)
            /\ Len(st) <= Len(d)
            /\ \A i \in 1..Len(st) :
                    st[i] = [sql |-> "COMMENT ON TABLE {} IS %s",
                             identifiers |-> <<d[i][1]>>,
                             params |-> <<d[i][2]>>]

C4_Witness ==
    /\ writer_out.kind = "column"
    /\ ~writer_out.raised
    /\ Len(writer_in.mapping) = 2
    /\ Len(writer_in.mapping[1][2]) = 2
    /\ Len(writer_in.mapping[2][2]) = 1
    /\ Len(writer_out.attempted) = 3

\* C5: on any alias, when a statement of a writer call fails, none of the
\* statements of the call is committed in the database of that alias.
C5_NoPartialCommit ==
    writer_out.raised =>
        /\ writer_out.committed = <<>>
        /\ db[writer_out.using] = {}

====
